---- MODULE Spec2Model ----
(***************************************************************************)
(* Model of protoc-gen-grpc-go-service (src/main.go): a protoc plugin that *)
(* reads a CodeGeneratorRequest, renders one Go source unit of server      *)
(* stubs per service and writes a CodeGeneratorResponse.                   *)
(*                                                                         *)
(* Strings are sequences of one-character strings, so that ToLower,        *)
(* TrimPrefix and concatenation are computed character by character.       *)
(* An optional protobuf field (a Go pointer) is a sequence of length 0     *)
(* (nil) or 1 (set).                                                       *)
(***************************************************************************)
EXTENDS Integers, Sequences, FiniteSets, TLC

\* ------------------------------------------------------------------ bounds
\* Proto files per request, services per proto file, methods per service in
\* the rendering specification, values a client stream delivers, and the
\* length of the type-name strings of the normalization specification.
MaxFiles == 2
MaxServices == 3
MaxMethods == 2
MaxRecv == 3
MaxLen == 4

\* ----------------------------------------------------------------- strings
UpperChars == <<"A","B","C","D","E","F","G","H","I","J","K","L","M",
                "N","O","P","Q","R","S","T","U","V","W","X","Y","Z">>
LowerChars == <<"a","b","c","d","e","f","g","h","i","j","k","l","m",
                "n","o","p","q","r","s","t","u","v","w","x","y","z">>

\* strings.ToLower, one character.
ToLowerChar(c) ==
    IF \E i \in DOMAIN UpperChars : UpperChars[i] = c
    THEN LowerChars[CHOOSE i \in DOMAIN UpperChars : UpperChars[i] = c]
    ELSE c

\* strings.ToLower.
ToLower(s) == [i \in 1..Len(s) |-> ToLowerChar(s[i])]

\* strings.HasPrefix.
HasPrefix(s, prefix) ==
    /\ Len(s) >= Len(prefix)
    /\ SubSeq(s, 1, Len(prefix)) = prefix

\* strings.TrimPrefix: s without the prefix, once, when s starts with it.
TrimPrefix(s, prefix) ==
    IF HasPrefix(s, prefix) THEN SubSeq(s, Len(prefix) + 1, Len(s)) ELSE s

\* ------------------------------------------------- descriptors (accessors)
\* Get<Field> of the generated protobuf structs: the zero value when the
\* pointer is nil, the pointed-to value otherwise.
GetString(opt) == IF opt = <<>> THEN <<>> ELSE opt[1]
GetBool(opt) == IF opt = <<>> THEN FALSE ELSE opt[1]

GetName(d) == GetString(d.Name)
GetPackage(pf) == GetString(pf.Package)
GetInputType(m) == GetString(m.InputType)
GetOutputType(m) == GetString(m.OutputType)
GetClientStreaming(m) == GetBool(m.ClientStreaming)
GetServerStreaming(m) == GetBool(m.ServerStreaming)
GetMethod(svc) == svc.Method
GetService(pf) == pf.Service
GetProtoFile(req) == req.ProtoFile

\* --------------------------------------------------- template helper funcs
\* Mutant of TrimmedInput: the first character is dropped whatever it is.
TrimmedInputDropFirst(m) ==
    SubSeq(GetInputType(m.MethodDescriptorProto), 2,
           Len(GetInputType(m.MethodDescriptorProto)))

\* Mutant of TrimmedOutput: the type name is used as the descriptor has it.
TrimmedOutputRaw(m) == GetOutputType(m.MethodDescriptorProto)

\* method embeds MethodDescriptorProto: the promoted getters read the
\* embedded descriptor.
TrimmedInput(m) == TrimPrefix(GetInputType(m.MethodDescriptorProto), <<".">>)
TrimmedOutput(m) == TrimPrefix(GetOutputType(m.MethodDescriptorProto), <<".">>)

\* fmt.Sprintf("%s_%sServer", m.serviceName, m.GetName())
StreamName(m) ==
    m.serviceName \o <<"_">> \o GetName(m.MethodDescriptorProto)
                  \o <<"S","e","r","v","e","r">>

\* {{.Name}} on a *string field: text/template prints the pointed-to string,
\* and "<nil>" for a nil pointer.
PrintName(d) == IF d.Name = <<>> THEN <<"<","n","i","l",">">> ELSE d.Name[1]

\* ------------------------------------------------------------ the template
\* One rendered method of the template "server": which of the four bodies it
\* is and the text the template substituted into it.
BidiBody(m, pkg) ==
    [body |-> "BidiStreaming",
     name |-> PrintName(m.MethodDescriptorProto),
     stream |-> pkg \o <<".">> \o StreamName(m),
     output |-> TrimmedOutput(m)]

ClientBody(m, pkg) ==
    [body |-> "ClientStreaming",
     name |-> PrintName(m.MethodDescriptorProto),
     stream |-> pkg \o <<".">> \o StreamName(m),
     output |-> TrimmedOutput(m)]

ServerBody(m, pkg) ==
    [body |-> "ServerStreaming",
     name |-> PrintName(m.MethodDescriptorProto),
     input |-> TrimmedInput(m),
     stream |-> pkg \o <<".">> \o StreamName(m),
     output |-> TrimmedOutput(m)]

UnaryBody(m, pkg) ==
    [body |-> "Unary",
     name |-> PrintName(m.MethodDescriptorProto),
     input |-> TrimmedInput(m),
     result |-> TrimmedOutput(m),
     output |-> TrimmedOutput(m)]

\* Mutant of RenderMethod: the {{ if .GetServerStreaming }} of the else
\* branch is not nested, it follows the {{ if .GetClientStreaming }}.
RenderMethodFlat(m, pkg) ==
    (IF GetClientStreaming(m.MethodDescriptorProto)
     THEN IF GetServerStreaming(m.MethodDescriptorProto)
          THEN <<BidiBody(m, pkg)>>
          ELSE <<ClientBody(m, pkg)>>
     ELSE <<>>)
    \o (IF GetServerStreaming(m.MethodDescriptorProto)
        THEN <<ServerBody(m, pkg)>>
        ELSE <<UnaryBody(m, pkg)>>)

\* The body of {{ range .Methods }} for one method: the nested
\* {{ if .GetClientStreaming }} / {{ if .GetServerStreaming }} and the
\* bodies each branch emits, in the order they are emitted.
RenderMethod(m, pkg) ==
    IF GetClientStreaming(m.MethodDescriptorProto)
    THEN IF GetServerStreaming(m.MethodDescriptorProto)
         THEN <<BidiBody(m, pkg)>>
         ELSE <<ClientBody(m, pkg)>>
    ELSE IF GetServerStreaming(m.MethodDescriptorProto)
         THEN <<ServerBody(m, pkg)>>
         ELSE <<UnaryBody(m, pkg)>>

\* {{ range .Methods }} ... {{ end }}: the bodies of the methods from the
\* k-th on, in order.
RECURSIVE RangeMethods(_, _, _)
RangeMethods(methods, pkg, k) ==
    IF k > Len(methods) THEN <<>>
    ELSE RenderMethod(methods[k], pkg) \o RangeMethods(methods, pkg, k + 1)

\* tmpl.Execute(w, p): the header comment with the source name, and the
\* rendered methods. Writing to a bytes.Buffer does not fail and every field
\* and method the template names exists, so err is nil.
tmplExecute(p) ==
    [err |-> FALSE,
     out |-> [source |-> p.ProtoName,
              methods |-> RangeMethods(p.Methods, p.PackageName, 1)]]

\* ------------------------------------------------------------ format.Source
IdentStart ==
    {"A","B","C","D","E","F","G","H","I","J","K","L","M",
     "N","O","P","Q","R","S","T","U","V","W","X","Y","Z",
     "a","b","c","d","e","f","g","h","i","j","k","l","m",
     "n","o","p","q","r","s","t","u","v","w","x","y","z", "_"}
IdentChar == IdentStart \cup {"0","1","2","3","4","5","6","7","8","9"}

\* The keywords of Go: the scanner yields them as keyword tokens, never as
\* identifiers.
GoKeywords ==
    { <<"b","r","e","a","k">>,
      <<"c","a","s","e">>,
      <<"c","h","a","n">>,
      <<"c","o","n","s","t">>,
      <<"c","o","n","t","i","n","u","e">>,
      <<"d","e","f","a","u","l","t">>,
      <<"d","e","f","e","r">>,
      <<"e","l","s","e">>,
      <<"f","a","l","l","t","h","r","o","u","g","h">>,
      <<"f","o","r">>,
      <<"f","u","n","c">>,
      <<"g","o">>,
      <<"g","o","t","o">>,
      <<"i","f">>,
      <<"i","m","p","o","r","t">>,
      <<"i","n","t","e","r","f","a","c","e">>,
      <<"m","a","p">>,
      <<"p","a","c","k","a","g","e">>,
      <<"r","a","n","g","e">>,
      <<"r","e","t","u","r","n">>,
      <<"s","e","l","e","c","t">>,
      <<"s","t","r","u","c","t">>,
      <<"s","w","i","t","c","h">>,
      <<"t","y","p","e">>,
      <<"v","a","r">> }

\* A Go identifier: a letter or underscore, then letters, digits and
\* underscores, and no keyword.
IsIdent(s) ==
    /\ Len(s) > 0
    /\ s[1] \in IdentStart
    /\ \A i \in 1..Len(s) : s[i] \in IdentChar
    /\ s \notin GoKeywords

\* format.Source parses the unit with go/parser and prints it again; its
\* error is the parser's. The result is one of three:
\*   "formats"  every Go release parses the unit;
\*   "fails"    every Go release reports a syntax error;
\*   "depends"  the result is not fixed by the unit: it depends on the Go
\*              release the plugin is built with, or a printed name holds
\*              characters beyond identifiers and dots, so that the text
\*              is Go source of any shape (white space, comments, type
\*              and expression syntax, declarations of its own).
\* formatSource then has both results, and what is checked of the plugin
\* holds whichever of them the library returns.
Worst(S) ==
    IF "fails" \in S THEN "fails"
    ELSE IF "depends" \in S THEN "depends"
    ELSE "formats"

\* A printed name made of words joined by single dots, with or without a
\* dot in front: the scanner reads it as identifiers, keywords and ".".
IsPlain(s) ==
    /\ Len(s) > 0
    /\ s[Len(s)] # "."
    /\ (s[1] = "." \/ s[1] \in IdentStart)
    /\ \A i \in 1..Len(s) : (s[i] = "." \/ s[i] \in IdentChar)
    /\ \A i \in 1..(Len(s) - 1) : s[i] = "." => s[i + 1] \in IdentStart

\* The number of dots of a plain name.
Dots(s) == Cardinality({i \in 1..Len(s) : s[i] = "."})

\* The word of a plain name that starts at position a.
WordAt(s, a) ==
    LET dots == {d \in (a + 1)..Len(s) : s[d] = "."}
    IN SubSeq(s, a, IF dots = {} THEN Len(s)
                    ELSE (CHOOSE d \in dots : \A e \in dots : d <= e) - 1)

\* A plain name without a keyword among its words.
NoKeyword(s) ==
    \A a \in 1..Len(s) :
        (s[a] # "." /\ (a = 1 \/ s[a - 1] = ".")) => WordAt(s, a) \notin GoKeywords

\* A Go type name: identifier, or package-qualified identifier.
IsTypeName(s) ==
    /\ IsPlain(s)
    /\ s[1] # "."
    /\ Dots(s) <= 1
    /\ NoKeyword(s)

\* The method name of "func (s *service) <name>(": an identifier.
NameStatus(s) == IF IsIdent(s) THEN "formats" ELSE "fails"

\* The type of "input *<text>" and of the result "(*<text>, error)": a
\* type name; a keyword, a second selector or a dot in front is a syntax
\* error.
TypeStatus(s) == IF IsTypeName(s) THEN "formats" ELSE "fails"

\* The parameter list "(stream <text>)" of the client- and bidi-streaming
\* bodies: a parameter named stream of a type name, or, when the text
\* starts with the selector dot (no package name), the one unnamed
\* parameter of type stream.<ident>.
IsStreamParam(s) ==
    \/ IsTypeName(s)
    \/ (HasPrefix(s, <<".">>) /\ IsIdent(SubSeq(s, 2, Len(s))))

StreamStatus(s) == IF IsStreamParam(s) THEN "formats" ELSE "fails"

\* The parameter list "(input *T, stream <text>)" of the server-streaming
\* body: input is named, so stream has to be a name followed by a type
\* name; the unnamed stream.<ident> next to a named parameter is rejected.
IsNamedStreamParam(s) == IsTypeName(s)

NamedStreamStatus(s) == IF IsNamedStreamParam(s) THEN "formats" ELSE "fails"

\* The operand of "&<text>{}": an identifier or a package-qualified
\* identifier is a composite literal type. A longer selector chain is one
\* for the parser of newer Go releases only; struct and interface take the
\* braces of the template as their own. A dot in front or another keyword
\* is a syntax error.
OperandStatus(s) ==
    IF IsTypeName(s) THEN "formats"
    ELSE IF s \in {<<"s","t","r","u","c","t">>,
                   <<"i","n","t","e","r","f","a","c","e">>}
         THEN "depends"
    ELSE IF s[1] # "." /\ NoKeyword(s) THEN "depends"
    ELSE "fails"

\* The printed names of one rendered method.
PrintedNames(b) ==
    <<b.name, b.output>>
       \o (IF b.body \in {"Unary", "ServerStreaming"} THEN <<b.input>> ELSE <<>>)
       \o (IF b.body = "Unary" THEN <<b.result>> ELSE <<b.stream>>)

\* Whether go/parser accepts one rendered method of plain names.
MethodParses(b) ==
    Worst({NameStatus(b.name), OperandStatus(b.output)}
          \cup (IF b.body \in {"Unary", "ServerStreaming"}
                THEN {TypeStatus(b.input)} ELSE {})
          \cup (IF b.body = "Unary" THEN {TypeStatus(b.result)} ELSE {})
          \cup (IF b.body = "ServerStreaming"
                THEN {NamedStreamStatus(b.stream)} ELSE {})
          \cup (IF b.body \in {"ClientStreaming", "BidiStreaming"}
                THEN {StreamStatus(b.stream)} ELSE {}))

\* The header of a rendered unit is the line "// source: {{.ProtoName}}"
\* before the package clause. The name of a proto file is any string, so
\* the header is scanned as go/scanner scans it: character by character.

\* Bytes go/scanner reports wherever they stand, comments included, written
\* as Go writes them: NUL, a byte that is no UTF-8 encoding, and a byte
\* order mark after the start of the file.
IllegalChars == {"\\x00", "\\xff", "\\ufeff"}

\* The white space between tokens.
WhiteSpace == {" ", "\t", "\n", "\r"}

DecimalDigits == <<"0","1","2","3","4","5","6","7","8","9">>

IsDigit(c) == \E k \in 1..10 : DecimalDigits[k] = c

DigitValue(c) == (CHOOSE k \in 1..10 : DecimalDigits[k] = c) - 1

\* A decimal numeral without its leading zeros (empty for zero).
StripZeros(d) ==
    LET nz == {j \in 1..Len(d) : d[j] # "0"}
    IN IF nz = {} THEN <<>>
       ELSE SubSeq(d, CHOOSE j \in nz : \A k \in nz : j <= k, Len(d))

\* a < b, for decimal numerals without leading zeros.
NumeralLess(a, b) ==
    \/ Len(a) < Len(b)
    \/ /\ Len(a) = Len(b)
       /\ \E k \in 1..Len(a) :
             /\ DigitValue(a[k]) < DigitValue(b[k])
             /\ \A j \in 1..(k - 1) : a[j] = b[j]

\* The cap newer releases of go/scanner put on line and column numbers
\* (1 << 30).
maxLineCol == <<"1","0","7","3","7","4","1","8","2","4">>

\* A decimal numeral.
IsNumeral(s) == Len(s) > 0 /\ \A j \in 1..Len(s) : IsDigit(s[j])

\* A line or column number every release accepts: not 0, not above the cap.
LineColOk(s) ==
    /\ StripZeros(s) # <<>>
    /\ ~NumeralLess(maxLineCol, StripZeros(s))

\* The position of the last ":" of text, 0 when there is none.
LastColon(text) ==
    LET cs == {j \in 1..Len(text) : text[j] = ":"}
    IN IF cs = {} THEN 0 ELSE CHOOSE j \in cs : \A k \in cs : k <= j

\* updateLineInfo, for the text of a line directive (what follows
\* "//line " or "/*line "): text without ":" is no directive; a directive
\* filename:line or filename:line:col with accepted numbers is taken by
\* every release; any other is an error for the releases that check line
\* directives (Go 1.11 and later) and a comment for those before.
updateLineInfo(text) ==
    LET i == LastColon(text)
        num == SubSeq(text, i + 1, Len(text))
        rest == SubSeq(text, 1, i - 1)
        i2 == LastColon(rest)
        num2 == SubSeq(rest, i2 + 1, Len(rest))
    IN IF \/ i = 0
          \/ /\ IsNumeral(num)
             /\ LineColOk(num)
             /\ ((i2 > 0 /\ IsNumeral(num2)) => LineColOk(num2))
       THEN "formats"
       ELSE "depends"

\* scanComment, for the line comment lit ("//" to the end of the line),
\* which starts at the beginning of its line or not: a final "\r" is
\* dropped, and a comment "//line ..." at the beginning of a line is a
\* line directive.
LineCommentStatus(lit, atLineStart) ==
    LET l == IF lit[Len(lit)] = "\r" THEN SubSeq(lit, 1, Len(lit) - 1) ELSE lit
    IN IF atLineStart /\ HasPrefix(SubSeq(l, 3, Len(l)), <<"l","i","n","e"," ">>)
       THEN updateLineInfo(SubSeq(l, 8, Len(l)))
       ELSE "formats"

\* scanComment, for the terminated general comment lit ("/*" to "*/"): a
\* comment "/*line ...*/" is a line directive wherever it starts.
GeneralCommentStatus(lit) ==
    IF HasPrefix(SubSeq(lit, 3, Len(lit)), <<"l","i","n","e"," ">>)
    THEN updateLineInfo(SubSeq(lit, 8, Len(lit) - 2))
    ELSE "formats"

\* The scan of the text t, which ends with a line break, from position p
\* on, in a unit whose printed names are plain: white space and comments
\* lead to the package clause. Any other token stands before the clause
\* "package main" of the template and makes the parse fail, as a whole
\* file and as a fragment; a general comment that t does not terminate is
\* not terminated at all, since neither the template nor a plain name
\* holds a comment terminator.
RECURSIVE ScanComments(_, _)
ScanComments(t, p) ==
    IF p > Len(t) THEN "formats"
    ELSE IF t[p] \in WhiteSpace THEN ScanComments(t, p + 1)
    ELSE IF t[p] = "/" /\ p < Len(t) /\ t[p + 1] = "/"
    THEN LET ends == {j \in p..Len(t) : t[j] = "\n"}
             e == CHOOSE j \in ends : \A k \in ends : j <= k
         IN Worst({LineCommentStatus(SubSeq(t, p, e - 1),
                                     p = 1 \/ t[p - 1] = "\n"),
                   ScanComments(t, e + 1)})
    ELSE IF t[p] = "/" /\ p < Len(t) /\ t[p + 1] = "*"
    THEN LET closes == {j \in (p + 2)..(Len(t) - 1) :
                           t[j] = "*" /\ t[j + 1] = "/"}
         IN IF closes = {} THEN "fails"
            ELSE LET c == CHOOSE j \in closes : \A k \in closes : j <= k
                 IN Worst({GeneralCommentStatus(SubSeq(t, p, c + 1)),
                           ScanComments(t, c + 2)})
    ELSE "fails"

\* The header "// source: {{.ProtoName}}" of a unit whose printed names
\* are plain.
HeaderParses(src) ==
    ScanComments(<<"/","/"," ","s","o","u","r","c","e",":"," ">>
                    \o src \o <<"\n">>, 1)

\* A text with a byte the scanner reports.
HasIllegalChar(t) == \E j \in 1..Len(t) : t[j] \in IllegalChars

\* What go/parser makes of a unit. A byte the scanner reports is an error
\* wherever it stands. With that aside, a name that is not plain leaves
\* the result open, because its text may close a comment the header
\* opened, or be any Go source by itself. A unit of plain names parses
\* when its header and each of its methods do.
ParseStatus(unit) ==
    IF \/ HasIllegalChar(unit.source)
       \/ \E i \in 1..Len(unit.methods) :
             LET names == PrintedNames(unit.methods[i])
             IN \E n \in 1..Len(names) : HasIllegalChar(names[n])
    THEN "fails"
    ELSE IF \E i \in 1..Len(unit.methods) :
               LET names == PrintedNames(unit.methods[i])
               IN \E n \in 1..Len(names) : ~IsPlain(names[n])
    THEN "depends"
    ELSE Worst({HeaderParses(unit.source)}
               \cup {MethodParses(unit.methods[i]) : i \in 1..Len(unit.methods)})

\* format.Source: the results it can return for a unit. An error when the
\* unit does not parse; otherwise the unit with canonical white space
\* (white space is not part of the rendered units of this model).
formatSource(unit) ==
    LET status == ParseStatus(unit)
    IN (IF status \in {"formats", "depends"}
        THEN {[err |-> FALSE, out |-> unit]} ELSE {})
       \cup
       (IF status \in {"fails", "depends"}
        THEN {[err |-> TRUE, out |-> <<>>]} ELSE {})

\* ------------------------------------------------------------- parseRequest
\* Mutant of ParseMethods: the loop stops one method early.
ParseMethodsDropLast(svc, k) ==
    [n \in 1..(Len(GetMethod(svc)) - k) |->
        [MethodDescriptorProto |-> GetMethod(svc)[k + n - 1],
         serviceName |-> GetName(svc)]]

\* The inner loop over the methods of a service: method{descriptor, name of
\* the service} appended for the methods from the k-th on.
RECURSIVE ParseMethods(_, _)
ParseMethods(svc, k) ==
    IF k > Len(GetMethod(svc)) THEN <<>>
    ELSE <<[MethodDescriptorProto |-> GetMethod(svc)[k],
            serviceName |-> GetName(svc)]>> \o ParseMethods(svc, k + 1)

\* params for one service of one proto file.
ParseService(pf, svc) ==
    [ServiceDescriptorProto |-> svc,
     PackageName |-> GetPackage(pf),
     ProtoName |-> GetName(pf),
     Methods |-> ParseMethods(svc, 1),
     fileName |-> <<>>]

\* Mutant of ParseServices: each params is put in front of the others.
ParseServicesReversed(pf, j) ==
    [n \in 1..(Len(GetService(pf)) - j + 1) |->
        ParseService(pf, GetService(pf)[Len(GetService(pf)) - n + 1])]

\* The loop over the services of a proto file, from the j-th on.
RECURSIVE ParseServices(_, _)
ParseServices(pf, j) ==
    IF j > Len(GetService(pf)) THEN <<>>
    ELSE <<ParseService(pf, GetService(pf)[j])>> \o ParseServices(pf, j + 1)

\* The loop over the proto files of the request, from the i-th on.
RECURSIVE ParseFiles(_, _)
ParseFiles(r, i) ==
    IF i > Len(GetProtoFile(r)) THEN <<>>
    ELSE ParseServices(GetProtoFile(r)[i], 1) \o ParseFiles(r, i + 1)

parseRequest(r) == ParseFiles(r, 1)

\* -------------------------------------------------------- generateResponse
\* Mutant of FileName: the name is not lower-cased.
FileNameNoLower(p) == GetName(p.ServiceDescriptorProto) \o <<".","g","o">>

\* fileName := strings.ToLower(p.GetName()) + ".go"; GetName is promoted
\* from the embedded ServiceDescriptorProto.
FileName(p) == ToLower(GetName(p.ServiceDescriptorProto)) \o <<".","g","o">>

\* The CodeGeneratorResponse_File appended for p.
GeneratedFile(p, fmted) == [Name |-> FileName(p), Content |-> fmted]

\* proto.Marshal of a response: the bytes are its File fields, one after
\* another, in order (nothing for a response without files). The message
\* is not nil, has no required field and no nil element, so err is nil.
Marshal(r) ==
    [err |-> FALSE,
     out |-> [i \in 1..Len(r.File) |-> [file |-> r.File[i]]]]

\* ------------------------------------------------------------------ inputs
sGet == <<"G","e","t">>
sPut == <<"P","u","t">>
sWatch == <<"W","a","t","c","h">>
sTalk == <<"T","a","l","k">>
sUpload == <<"U","p","l","o","a","d">>
sPkg == <<"p","k","g">>
sReq == <<".","p","k","g",".","R","e","q">>
sResp == <<".","p","k","g",".","R","e","s","p">>
sEmpty == <<".","g","o","o","g","l","e",".","p","r","o","t","o","b","u","f",
            ".","E","m","p","t","y">>
sFooProto == <<"F","o","o",".","p","r","o","t","o">>
sApiProto == <<"a","p","i","/","v","1",".","p","r","o","t","o">>

\* An optional bool field as protoc may leave it: unset, false or true.
OptBool == {<<>>, <<FALSE>>, <<TRUE>>}

Mtd(name, in, out, cs, ss) ==
    [Name |-> <<name>>, InputType |-> <<in>>, OutputType |-> <<out>>,
     ClientStreaming |-> cs, ServerStreaming |-> ss]

Svc(name, methods) == [Name |-> <<name>>, Method |-> methods]

\* The services of the multi-service requests: two whose names differ only
\* in case, one with all four kinds of method, and one whose method returns
\* a message of another package (google.protobuf.Empty).
SampleServices ==
    { Svc(<<"E","c","h","o">>,
          << Mtd(sGet, sReq, sResp, <<>>, <<>>),
             Mtd(sWatch, sReq, sResp, <<FALSE>>, <<TRUE>>) >>),
      Svc(<<"e","c","h","o">>, <<>>),
      Svc(<<"C","h","a","t">>,
          << Mtd(sTalk, sReq, sResp, <<TRUE>>, <<TRUE>>),
             Mtd(sUpload, sReq, sResp, <<TRUE>>, <<>>) >>),
      Svc(<<"S","t","o","r","e">>,
          << Mtd(sPut, sReq, sEmpty, <<>>, <<>>) >>) }

\* The methods of the single-service requests: every setting of the two
\* streaming flags, for Get, which returns a message of the package, and
\* for Put, which returns the Empty of google.protobuf.
WideMethods ==
    { Mtd(sGet, sReq, sResp, cs, ss) : cs \in OptBool, ss \in OptBool }
       \cup { Mtd(sPut, sReq, sEmpty, cs, ss) : cs \in OptBool, ss \in OptBool }

FileNames == {sFooProto, sApiProto}

\* The methods of the one-method requests: those above, a unary method
\* named go, and a unary method whose input type is the text .[]int.
EdgeMethods ==
    WideMethods \cup {Mtd(<<"g","o">>, sReq, sResp, <<>>, <<>>),
                      Mtd(sGet, <<".","[","]","i","n","t">>, sResp, <<>>, <<>>)}

\* A proto file name with a line break in it.
sBrokenProto == <<"a","\n","b",".","p","r","o","t","o">>

\* The proto file names of the one-method requests.
\* A proto file name with a line break and a general comment after it.
sCommentProto == <<"a","\n","/","*"," ","b"," ","*","/","\n">>

\* A proto file name with a line break and a line directive without a line
\* number after it.
sLineProto == <<"a","\n","/","/","l","i","n","e"," ","x",":","y">>

\* A proto file name with a NUL byte in it.
sNulProto == <<"a","\\x00",".","p","r","o","t","o">>

EdgeFileNames == {sFooProto, sBrokenProto, sCommentProto, sLineProto, sNulProto}

\* The package of a proto file: declared, or none.
OptPackage == {<<sPkg>>, <<>>}

\* The proto files that hold the services of flat, in order, cut after the
\* positions cuts[1] <= cuts[2] <= ... (the last file takes the rest).
SplitFiles(flat, names, cuts) ==
    [i \in 1..Len(names) |->
        [Name |-> <<names[i]>>,
         Package |-> <<sPkg>>,
         Service |-> SubSeq(flat,
                            (IF i = 1 THEN 0 ELSE cuts[i - 1]) + 1,
                            IF i = Len(names) THEN Len(flat) ELSE cuts[i])]]

\* Requests of up to MaxFiles proto files with up to MaxServices services
\* in all.
Cuts(n, len) ==
    {c \in [1..(n - 1) -> 0..len] : \A i \in 1..(n - 2) : c[i] <= c[i + 1]}

\* A request of the proto files SplitFiles makes.
SampleRequest(flat, names, cuts) ==
    [ProtoFile |-> SplitFiles(flat, names, cuts)]

\* A request of one proto file with one service of the methods ms.
WideRequest(ms) ==
    [ProtoFile |->
       << [Name |-> <<sFooProto>>,
           Package |-> <<sPkg>>,
           Service |-> << Svc(<<"E","c","h","o">>, ms) >>] >>]

\* A request of one proto file, named name and with the package pkg or
\* none, with one service of the one method m (its message types are those
\* of the imported package pkg).
EdgeRequest(name, pkg, m) ==
    [ProtoFile |->
       << [Name |-> <<name>>,
           Package |-> pkg,
           Service |-> << Svc(<<"E","c","h","o">>, <<m>>) >>] >>]

EmptyRequest == [ProtoFile |-> <<>>]

\* os.Stdin holding the bytes of the request r.
StdinOf(r) == [readErr |-> FALSE, valid |-> TRUE, msg |-> r]

\* What the plugin finds on its standard input: a stream that fails to read,
\* bytes that are no CodeGeneratorRequest, or the bytes of a request: up to
\* MaxFiles proto files with up to MaxServices services in all, or one
\* service of up to MaxMethods methods, or one service of one method in a
\* proto file with or without a package.
StdinInit(in) ==
    \/ in = [readErr |-> TRUE, valid |-> FALSE, msg |-> EmptyRequest]
    \/ in = [readErr |-> FALSE, valid |-> FALSE, msg |-> EmptyRequest]
    \/ \E n \in 0..MaxFiles, k \in 0..MaxServices :
          \E names \in [1..n -> FileNames], flat \in [1..k -> SampleServices] :
             \E cuts \in Cuts(n, k) :
                in = StdinOf(SampleRequest(flat, names, cuts))
    \/ \E k \in 0..MaxMethods :
          \E ms \in [1..k -> WideMethods] : in = StdinOf(WideRequest(ms))
    \/ \E name \in EdgeFileNames, pkg \in OptPackage, m \in EdgeMethods :
          in = StdinOf(EdgeRequest(name, pkg, m))

\* ------------------------------------------------------------------- state
VARIABLES
    pc,       \* where main is: the call in progress, or the exit status
    stdin,    \* os.Stdin
    req,      \* the decoded CodeGeneratorRequest
    ps,       \* []params, the result of parseRequest
    idx,      \* generateResponse: position of the range loop over ps
    w,        \* generateResponse: what tmpl.Execute wrote to the buffer
    resp,     \* the CodeGeneratorResponse under construction
    stdout,   \* the bytes written to os.Stdout
    logged,   \* the messages passed to log...Fatal
    stub,     \* a rendered method, compiled and called by a gRPC server
    at,       \* the statement of the stub's body that runs next
    i,        \* the loop counter of the server-streaming body
    stream,   \* the calls the stub has made on its stream, with results
    ret,      \* <<>> while the stub runs, then <<what it returned>>
    tn        \* a type name, followed by the results of normalizing it

pluginVars == <<pc, stdin, req, ps, idx, w, resp, stdout, logged>>
stubVars == <<stub, at, i, stream, ret>>
vars == <<pluginVars, stubVars, tn>>

EmptyUnit == [source |-> <<>>, methods |-> <<>>]

\* The plugin before main runs.
PluginIdle ==
    /\ pc = "decodeRequest"
    /\ stdin = [readErr |-> TRUE, valid |-> FALSE, msg |-> EmptyRequest]
    /\ req = EmptyRequest
    /\ ps = <<>>
    /\ idx = 0
    /\ w = EmptyUnit
    /\ resp = [File |-> <<>>]
    /\ stdout = <<>>
    /\ logged = <<>>

\* No stub is running.
StubIdle ==
    /\ stub = [body |-> "none"]
    /\ at = "none"
    /\ i = 0
    /\ stream = <<>>
    /\ ret = <<>>

Init ==
    /\ StubIdle
    /\ tn = <<>>
    /\ pc = "decodeRequest"
    /\ StdinInit(stdin)
    /\ req = EmptyRequest
    /\ ps = <<>>
    /\ idx = 0
    /\ w = EmptyUnit
    /\ resp = [File |-> <<>>]
    /\ stdout = <<>>
    /\ logged = <<>>

\* log.WithErr(err).Fatal(msg), of the library github.com/nstogner/kit/log:
\* the failure is terminal at the point of detection; a diagnostic message
\* is logged, nothing goes to the output stream, and the process ends with
\* a non-zero status.
Fatal(msg) ==
    /\ logged' = Append(logged, msg)
    /\ pc' = "exit1"

\* ------------------------------------------------------------ decodeRequest
DecodeRequest ==
    /\ pc = "decodeRequest"
    /\ ~stdin.readErr
    /\ stdin.valid
    /\ req' = stdin.msg
    /\ pc' = "parseRequest"
    /\ UNCHANGED <<stdin, ps, idx, w, resp, stdout, logged, stubVars, tn>>

DecodeReadFatal ==
    /\ pc = "decodeRequest"
    /\ stdin.readErr
    /\ Fatal("unable to read stdin")
    /\ UNCHANGED <<stdin, req, ps, idx, w, resp, stdout, stubVars, tn>>

DecodeUnmarshalFatal ==
    /\ pc = "decodeRequest"
    /\ ~stdin.readErr
    /\ ~stdin.valid
    /\ Fatal("unable to marshal stdin as protobuf")
    /\ UNCHANGED <<stdin, req, ps, idx, w, resp, stdout, stubVars, tn>>

\* ------------------------------------------------------------- parseRequest
ParseRequest ==
    /\ pc = "parseRequest"
    /\ ps' = parseRequest(req)
    /\ idx' = 1
    /\ pc' = "generateResponse"
    /\ UNCHANGED <<stdin, req, w, resp, stdout, logged, stubVars, tn>>

\* -------------------------------------------------------- generateResponse
\* One iteration of the loop over ps that ends with the append.
GenerateFile ==
    /\ pc = "generateResponse"
    /\ idx <= Len(ps)
    /\ LET p == ps[idx]
           x == tmplExecute(p)
       IN /\ ~x.err
          /\ \E f \in formatSource(x.out) :
                /\ ~f.err
                /\ resp' = [resp EXCEPT
                              !.File = Append(@, GeneratedFile(p, f.out))]
          /\ w' = x.out
    /\ idx' = idx + 1
    /\ UNCHANGED <<pc, stdin, req, ps, stdout, logged, stubVars, tn>>

\* Mutant of GenerateFatal: the failure is logged as a warning and the loop
\* goes on with the next service.
GenerateSkip ==
    /\ pc = "generateResponse"
    /\ idx <= Len(ps)
    /\ \E f \in formatSource(tmplExecute(ps[idx]).out) : f.err
    /\ w' = tmplExecute(ps[idx]).out
    /\ idx' = idx + 1
    /\ UNCHANGED <<pc, stdin, req, ps, resp, stdout, logged, stubVars, tn>>

\* One iteration that ends in Fatal: the template or the formatter failed.
GenerateFatal ==
    /\ pc = "generateResponse"
    /\ idx <= Len(ps)
    /\ LET p == ps[idx]
           x == tmplExecute(p)
       IN IF x.err
          THEN /\ Fatal("unable to execute template")
               /\ UNCHANGED w
          ELSE /\ \E f \in formatSource(x.out) : f.err
               /\ Fatal("unable to go-fmt output")
               /\ w' = x.out
    /\ UNCHANGED <<stdin, req, ps, idx, resp, stdout, stubVars, tn>>

\* The loop is over: return &resp.
GenerateReturn ==
    /\ pc = "generateResponse"
    /\ idx > Len(ps)
    /\ pc' = "encodeResponse"
    /\ UNCHANGED <<stdin, req, ps, idx, w, resp, stdout, logged, stubVars, tn>>

\* ----------------------------------------------------------- encodeResponse
EncodeResponse ==
    /\ pc = "encodeResponse"
    /\ ~Marshal(resp).err
    /\ stdout' = stdout \o Marshal(resp).out
    /\ pc' = "exit0"
    /\ UNCHANGED <<stdin, req, ps, idx, w, resp, logged, stubVars, tn>>

\* encodeResponse ends in Fatal: proto.Marshal returned an error and
\* nothing is written, or w.Write returned an error after writing n bytes,
\* fewer than all of them.
EncodeFatal ==
    /\ pc = "encodeResponse"
    /\ IF Marshal(resp).err
       THEN /\ Fatal("unable to marshal response to protobuf")
            /\ UNCHANGED stdout
       ELSE /\ \E n \in 0..Len(Marshal(resp).out) :
                  /\ (n < Len(Marshal(resp).out) \/ n = 0)
                  /\ stdout' = stdout \o SubSeq(Marshal(resp).out, 1, n)
            /\ Fatal("unable to write protobuf to stdout")
    /\ UNCHANGED <<stdin, req, ps, idx, w, resp, stubVars, tn>>

Next ==
    \/ DecodeRequest
    \/ DecodeReadFatal
    \/ DecodeUnmarshalFatal
    \/ ParseRequest
    \/ GenerateFile
    \/ GenerateFatal
    \/ GenerateReturn
    \/ EncodeResponse
    \/ EncodeFatal

Spec == Init /\ [][Next]_vars

\* ------------------------------------------------- the rendered stubs, run
\* A generated method is called by a gRPC server with a stream whose Recv,
\* Send and SendAndClose results the stub does not control.

\* for i := 0; i < 10; i++
SendCount == 10

\* Error values: nil, io.EOF, and the error the n-th call on the stream
\* returned.
NilErr == [kind |-> "nil", call |-> 0]
EOF == [kind |-> "EOF", call |-> 0]
ErrAt(n) == [kind |-> "error", call |-> n]

\* &T{}: a pointer to the zero value of the type the template wrote.
ZeroValue(t) == [type |-> t, zero |-> TRUE]

\* The values Recv has delivered so far.
Received == {n \in DOMAIN stream : stream[n].call = "Recv" /\ stream[n].err = NilErr}

\* What stream.Recv() may return as err: nil with a value while the client
\* has values to send, io.EOF, or an error.
RecvResults ==
    (IF Cardinality(Received) < MaxRecv THEN {NilErr} ELSE {})
    \cup {EOF, ErrAt(Len(stream) + 1)}

\* What stream.Send and stream.SendAndClose may return.
SendResults == {NilErr, ErrAt(Len(stream) + 1)}

\* The stubs a server can run: the methods of the generated files.
InitStub ==
    /\ PluginIdle
    /\ tn = <<>>
    /\ \E m \in WideMethods :
          LET p == parseRequest(WideRequest(<<m>>))[1]
          IN \E f \in formatSource(tmplExecute(p).out) :
                /\ ~f.err
                /\ \E k \in DOMAIN f.out.methods : stub = f.out.methods[k]
    /\ at = "entry"
    /\ i = 0
    /\ stream = <<>>
    /\ ret = <<>>

\* Mutant of BidiRecv: end-of-input is not told from a value, an output is
\* sent for it too.
BidiRecvSendOnEOF ==
    /\ stub.body = "BidiStreaming"
    /\ ret = <<>>
    /\ at \in {"entry", "recv"}
    /\ \E e \in RecvResults :
          /\ stream' = Append(stream, [call |-> "Recv", err |-> e])
          /\ IF e \notin {NilErr, EOF}
             THEN ret' = <<[err |-> e]>> /\ at' = "returned"
             ELSE ret' = ret /\ at' = "send"
    /\ UNCHANGED <<stub, i, pluginVars, tn>>

\* Bidi-streaming body: input, err := stream.Recv() and the two ifs on err.
BidiRecv ==
    /\ stub.body = "BidiStreaming"
    /\ ret = <<>>
    /\ at \in {"entry", "recv"}
    /\ \E e \in RecvResults :
          /\ stream' = Append(stream, [call |-> "Recv", err |-> e])
          /\ IF e = EOF
             THEN ret' = <<[err |-> NilErr]>> /\ at' = "returned"
             ELSE IF e # NilErr
                  THEN ret' = <<[err |-> e]>> /\ at' = "returned"
                  ELSE ret' = ret /\ at' = "send"
    /\ UNCHANGED <<stub, i, pluginVars, tn>>

\* Bidi-streaming body: if err := stream.Send(&T{}); err != nil.
BidiSend ==
    /\ stub.body = "BidiStreaming"
    /\ ret = <<>>
    /\ at = "send"
    /\ \E e \in SendResults :
          /\ stream' = Append(stream, [call |-> "Send",
                                       arg |-> ZeroValue(stub.output),
                                       err |-> e])
          /\ IF e # NilErr
             THEN ret' = <<[err |-> e]>> /\ at' = "returned"
             ELSE ret' = ret /\ at' = "recv"
    /\ UNCHANGED <<stub, i, pluginVars, tn>>

\* Mutant of ClientRecv: every error ends the input, not only io.EOF.
ClientRecvAnyErrEnds ==
    /\ stub.body = "ClientStreaming"
    /\ ret = <<>>
    /\ at \in {"entry", "recv"}
    /\ \E e \in RecvResults :
          /\ stream' = Append(stream, [call |-> "Recv", err |-> e])
          /\ IF e # NilErr
             THEN ret' = ret /\ at' = "sendAndClose"
             ELSE ret' = ret /\ at' = "recv"
    /\ UNCHANGED <<stub, i, pluginVars, tn>>

\* Client-streaming body: input, err := stream.Recv() and the two ifs on
\* err, up to the call of SendAndClose.
ClientRecv ==
    /\ stub.body = "ClientStreaming"
    /\ ret = <<>>
    /\ at \in {"entry", "recv"}
    /\ \E e \in RecvResults :
          /\ stream' = Append(stream, [call |-> "Recv", err |-> e])
          /\ IF e = EOF
             THEN ret' = ret /\ at' = "sendAndClose"
             ELSE IF e # NilErr
                  THEN ret' = <<[err |-> e]>> /\ at' = "returned"
                  ELSE ret' = ret /\ at' = "recv"
    /\ UNCHANGED <<stub, i, pluginVars, tn>>

\* Client-streaming body: return stream.SendAndClose(&T{}).
ClientSendAndClose ==
    /\ stub.body = "ClientStreaming"
    /\ ret = <<>>
    /\ at = "sendAndClose"
    /\ \E e \in SendResults :
          /\ stream' = Append(stream, [call |-> "SendAndClose",
                                       arg |-> ZeroValue(stub.output),
                                       err |-> e])
          /\ ret' = <<[err |-> e]>>
    /\ at' = "returned"
    /\ UNCHANGED <<stub, i, pluginVars, tn>>

\* Mutant of ServerSend: the error of Send is dropped.
ServerSendIgnoreErr ==
    /\ stub.body = "ServerStreaming"
    /\ ret = <<>>
    /\ at \in {"entry", "send"}
    /\ i < SendCount
    /\ \E e \in SendResults :
          stream' = Append(stream, [call |-> "Send",
                                    arg |-> ZeroValue(stub.output),
                                    err |-> e])
    /\ i' = i + 1
    /\ at' = "send"
    /\ UNCHANGED <<stub, ret, pluginVars, tn>>

\* Server-streaming body: one iteration of the for loop.
ServerSend ==
    /\ stub.body = "ServerStreaming"
    /\ ret = <<>>
    /\ at \in {"entry", "send"}
    /\ i < SendCount
    /\ \E e \in SendResults :
          /\ stream' = Append(stream, [call |-> "Send",
                                       arg |-> ZeroValue(stub.output),
                                       err |-> e])
          /\ IF e # NilErr
             THEN ret' = <<[err |-> e]>> /\ at' = "returned" /\ i' = i
             ELSE ret' = ret /\ at' = "send" /\ i' = i + 1
    /\ UNCHANGED <<stub, pluginVars, tn>>

\* Server-streaming body: the loop condition fails, return nil.
ServerReturn ==
    /\ stub.body = "ServerStreaming"
    /\ ret = <<>>
    /\ at \in {"entry", "send"}
    /\ ~(i < SendCount)
    /\ ret' = <<[err |-> NilErr]>>
    /\ at' = "returned"
    /\ UNCHANGED <<stub, i, stream, pluginVars, tn>>

\* Unary body: return &T{}, nil.
UnaryReturn ==
    /\ stub.body = "Unary"
    /\ ret = <<>>
    /\ at = "entry"
    /\ ret' = <<[value |-> ZeroValue(stub.output), err |-> NilErr]>>
    /\ at' = "returned"
    /\ UNCHANGED <<stub, i, stream, pluginVars, tn>>

NextStub ==
    \/ BidiRecv
    \/ BidiSend
    \/ ClientRecv
    \/ ClientSendAndClose
    \/ ServerSend
    \/ ServerReturn
    \/ UnaryReturn

\* The stub runs on a goroutine of its own and its stream calls return:
\* a step that can be taken is taken.
SpecStub == InitStub /\ [][NextStub]_vars /\ WF_vars(NextStub)

\* ------------------------------------------------- type-name normalization
TypeNameChars == {".", "a", "B"}

\* A method descriptor whose input and output type are t.
TypedMethod(t) ==
    [MethodDescriptorProto |-> Mtd(sGet, t, t, <<>>, <<>>),
     serviceName |-> <<>>]

InitTrim ==
    /\ PluginIdle
    /\ StubIdle
    /\ \E n \in 0..MaxLen : \E t \in [1..n -> TypeNameChars] : tn = <<t>>

\* TrimmedInput applied to the last result, at most twice in all.
NormalizeInput ==
    /\ Len(tn) \in {1, 2}
    /\ tn' = Append(tn, TrimmedInput(TypedMethod(tn[Len(tn)])))
    /\ UNCHANGED <<pluginVars, stubVars>>

\* TrimmedOutput applied to the last result, at most twice in all.
NormalizeOutput ==
    /\ Len(tn) \in {1, 2}
    /\ tn' = Append(tn, TrimmedOutput(TypedMethod(tn[Len(tn)])))
    /\ UNCHANGED <<pluginVars, stubVars>>

NextTrim ==
    \/ NormalizeInput
    \/ NormalizeOutput

SpecTrim == InitTrim /\ [][NextTrim]_vars

\* =================================================================== claims
\* ---- helpers of the claims about the plugin
FmtFailed == logged = <<"unable to go-fmt output">>

\* The position in ps of the service whose rendering is in w.
RenderedIdx == IF FmtFailed THEN idx ELSE idx - 1
HasRendered == RenderedIdx >= 1 /\ RenderedIdx <= Len(ps)

\* The services of the request before proto file f, counted.
RECURSIVE Offset(_, _)
Offset(r, f) ==
    IF f <= 1 THEN 0
    ELSE Offset(r, f - 1) + Len(r.ProtoFile[f - 1].Service)

TotalServices(r) == Offset(r, Len(r.ProtoFile) + 1)

\* The (proto file, service) positions of the request.
ServicePositions(r) ==
    UNION { {<<f, s>> : s \in 1..Len(r.ProtoFile[f].Service)} :
            f \in 1..Len(r.ProtoFile) }

\* A streaming flag as the claim reads it: absent is false.
IsSet(flag) == flag = <<TRUE>>

\* The truth table of the four shapes.
TruthTable(cs, ss) ==
    CASE ~IsSet(cs) /\ ~IsSet(ss) -> "Unary"
      [] ~IsSet(cs) /\ IsSet(ss) -> "ServerStreaming"
      [] IsSet(cs) /\ ~IsSet(ss) -> "ClientStreaming"
      [] IsSet(cs) /\ IsSet(ss) -> "BidiStreaming"

\* C1: every method renders exactly one of the four bodies, the one the
\* truth table gives for its two streaming flags (absent read as false):
\* a rendered unit has as many bodies as the service has methods and the
\* k-th body is the table's entry for the k-th method's flags.
C1_OneBodyPerTruthTable ==
    HasRendered =>
        LET ms == ps[RenderedIdx].Methods
        IN /\ Len(w.methods) = Len(ms)
           /\ \A k \in 1..Len(ms) :
                 /\ k <= Len(w.methods)
                 /\ w.methods[k].body \in
                      {"Unary", "ServerStreaming", "ClientStreaming", "BidiStreaming"}
                 /\ w.methods[k].body =
                      TruthTable(ms[k].MethodDescriptorProto.ClientStreaming,
                                 ms[k].MethodDescriptorProto.ServerStreaming)

\* C1 witness: a unit was rendered for a service whose first method has
\* only the server flag set and whose second has the client flag set and
\* the server flag absent.
C1_Witness ==
    /\ HasRendered
    /\ Len(ps[RenderedIdx].Methods) = 2
    /\ ps[RenderedIdx].Methods[1].MethodDescriptorProto.ClientStreaming = <<>>
    /\ ps[RenderedIdx].Methods[1].MethodDescriptorProto.ServerStreaming = <<TRUE>>
    /\ ps[RenderedIdx].Methods[2].MethodDescriptorProto.ClientStreaming = <<TRUE>>
    /\ ps[RenderedIdx].Methods[2].MethodDescriptorProto.ServerStreaming = <<>>
    /\ Len(w.methods) = 2
    /\ w.methods[1].body = "ServerStreaming"
    /\ w.methods[2].body = "ClientStreaming"

\* C5: the rendered unit of a service has exactly one generated method per
\* method descriptor of that service of the request, in order: the k-th has
\* the name and the shape of the k-th descriptor; no methods, no generated
\* methods.
C5_MethodsInOrder ==
    HasRendered =>
        \A pos \in ServicePositions(req) :
            Offset(req, pos[1]) + pos[2] = RenderedIdx =>
                LET ds == req.ProtoFile[pos[1]].Service[pos[2]].Method
                IN /\ Len(w.methods) = Len(ds)
                   /\ (Len(ds) = 0 => w.methods = <<>>)
                   /\ \A k \in 1..Len(ds) :
                         /\ k <= Len(w.methods)
                         /\ w.methods[k].name = ds[k].Name[1]
                         /\ w.methods[k].body =
                              TruthTable(ds[k].ClientStreaming, ds[k].ServerStreaming)

\* C5 witness: the unit of the second service of the request, Chat with its
\* methods Talk (bidi) and Upload (client streaming), was rendered.
C5_Witness ==
    /\ HasRendered
    /\ RenderedIdx = 2
    /\ Len(w.methods) = 2
    /\ w.methods[1].name = sTalk
    /\ w.methods[1].body = "BidiStreaming"
    /\ w.methods[2].name = sUpload
    /\ w.methods[2].body = "ClientStreaming"

\* C5 witness of the empty case is part of the same run set: a service
\* without methods renders a unit without methods.
C5_WitnessEmpty ==
    /\ HasRendered
    /\ ps[RenderedIdx].Methods = <<>>
    /\ w.methods = <<>>

\* C9 as stated: a Unary method with input ".pkg.Req" and output
\* ".pkg.Resp" renders the bare type names Req and Resp.
C9_BareTypeNames ==
    HasRendered =>
        \A k \in 1..Len(w.methods) :
            LET d == ps[RenderedIdx].Methods[k].MethodDescriptorProto
            IN (w.methods[k].body = "Unary"
                /\ d.InputType = <<sReq>> /\ d.OutputType = <<sResp>>) =>
                   /\ w.methods[k].input = <<"R","e","q">>
                   /\ w.methods[k].result = <<"R","e","s","p">>
                   /\ w.methods[k].output = <<"R","e","s","p">>

\* C9 amended: the type references of a rendered method are the
\* descriptor's fully-qualified names without their one leading ".", the
\* package qualifier kept: a Unary method with input ".pkg.Req" and output
\* ".pkg.Resp" accepts a pkg.Req, returns a pkg.Resp or an error, and its
\* body returns a zero-valued pkg.Resp.
C9_QualifiedTypeNames ==
    HasRendered =>
        \A k \in 1..Len(w.methods) :
            LET d == ps[RenderedIdx].Methods[k].MethodDescriptorProto
                b == w.methods[k]
            IN /\ <<".">> \o b.output = d.OutputType[1]
               /\ (b.body \in {"Unary", "ServerStreaming"} =>
                      <<".">> \o b.input = d.InputType[1])
               /\ (b.body = "Unary" => b.result = b.output)
               /\ (b.body = "Unary"
                   /\ d.InputType = <<sReq>> /\ d.OutputType = <<sResp>>) =>
                      /\ b.input = <<"p","k","g",".","R","e","q">>
                      /\ b.result = <<"p","k","g",".","R","e","s","p">>
                      /\ b.output = <<"p","k","g",".","R","e","s","p">>

\* C9 witness: a Unary method with input ".pkg.Req" and output ".pkg.Resp"
\* was rendered and its unit became a generated file.
C9_Witness ==
    /\ HasRendered
    /\ ~FmtFailed
    /\ Len(w.methods) >= 1
    /\ w.methods[1].body = "Unary"
    /\ ps[RenderedIdx].Methods[1].MethodDescriptorProto.InputType = <<sReq>>
    /\ ps[RenderedIdx].Methods[1].MethodDescriptorProto.OutputType = <<sResp>>
    /\ resp.File[RenderedIdx].Content.methods[1].input = <<"p","k","g",".","R","e","q">>

\* generateResponse has returned the response.
Generated == pc \in {"encodeResponse", "exit0"}

\* The file f is the one generated for service svc of proto file pf: its
\* header names pf, its methods are those of svc by name, its stream types
\* those of svc, and its name is svc's.
FileOf(file, pf, svc) ==
    /\ file.Content.source = pf.Name[1]
    /\ Len(file.Content.methods) = Len(svc.Method)
    /\ \A k \in 1..Len(svc.Method) :
          /\ file.Content.methods[k].name = svc.Method[k].Name[1]
          /\ (file.Content.methods[k].body # "Unary" =>
                file.Content.methods[k].stream =
                   (IF pf.Package = <<>> THEN <<>> ELSE pf.Package[1])
                      \o <<".">> \o svc.Name[1] \o <<"_">>
                      \o svc.Method[k].Name[1] \o <<"S","e","r","v","e","r">>)
    /\ Len(file.Name) = Len(svc.Name[1]) + Len(<<".","g","o">>)
    /\ ToLower(SubSeq(file.Name, 1, Len(svc.Name[1]))) = ToLower(svc.Name[1])

\* C2: a request processed without a fatal error yields one generated file
\* per service, none merged or dropped also when names coincide, the i-th
\* file being the one of the i-th service of the walk over the proto files
\* in request order and their services in declaration order; the bytes
\* written hold the same files in the same order.
C2_OneFilePerServiceInOrder ==
    Generated =>
        /\ Len(resp.File) = TotalServices(req)
        /\ \A pos \in ServicePositions(req) :
              /\ Offset(req, pos[1]) + pos[2] <= Len(resp.File)
              /\ FileOf(resp.File[Offset(req, pos[1]) + pos[2]],
                        req.ProtoFile[pos[1]],
                        req.ProtoFile[pos[1]].Service[pos[2]])
        /\ (pc = "exit0" =>
              /\ Len(stdout) = TotalServices(req)
              /\ \A n \in 1..Len(stdout) :
                    n <= Len(resp.File) /\ stdout[n].file = resp.File[n])

\* C2 witness: a request of two proto files, the first with the services
\* Echo and Chat, the second with the service echo, was answered with three
\* files, the first and the third of the same name.
C2_Witness ==
    /\ pc = "exit0"
    /\ Len(req.ProtoFile) = 2
    /\ Len(req.ProtoFile[1].Service) = 2
    /\ Len(req.ProtoFile[2].Service) = 1
    /\ Len(stdout) = 3
    /\ stdout[1].file.Name = stdout[3].file.Name
    /\ stdout[1].file.Content # stdout[3].file.Content
    /\ stdout[2].file.Name = <<"c","h","a","t",".","g","o">>
    /\ stdout[2].file.Content.methods[1].name = sTalk

\* C3 as stated: the name of a generated file is the lower-cased name of
\* the proto file of its service with ".go" appended, and services of the
\* same proto file name get the same file name.
C3_NameFromProtoFile ==
    \A n \in 1..Len(resp.File) :
        /\ resp.File[n].Name = ToLower(ps[n].ProtoName) \o <<".","g","o">>
        /\ \A m \in 1..Len(resp.File) :
              ps[m].ProtoName = ps[n].ProtoName =>
                 resp.File[m].Name = resp.File[n].Name

\* The character c in lower case is d.
IsLowerOf(d, c) ==
    \/ \E j \in DOMAIN UpperChars : UpperChars[j] = c /\ LowerChars[j] = d
    \/ ((\A j \in DOMAIN UpperChars : UpperChars[j] # c) /\ d = c)

\* C3 amended: the name of a generated file is the lower-cased name of its
\* service with ".go" appended (service Echo gets echo.go, whatever its
\* proto file is called); the name depends on the service name only, so
\* services of the same name get the same file name.
C3_NameFromService ==
    \A n \in 1..Len(resp.File) :
        LET svcName == ps[n].ServiceDescriptorProto.Name[1]
            name == resp.File[n].Name
        IN /\ Len(name) = Len(svcName) + 3
           /\ SubSeq(name, Len(svcName) + 1, Len(name)) = <<".","g","o">>
           /\ \A c \in 1..Len(svcName) : IsLowerOf(name[c], svcName[c])
           /\ (svcName = <<"E","c","h","o">> =>
                 name = <<"e","c","h","o",".","g","o">>)
           /\ \A m \in 1..Len(resp.File) :
                 ps[m].ServiceDescriptorProto.Name[1] = svcName =>
                    resp.File[m].Name = name

\* C3 witness: the service Echo of the proto file Foo.proto and the
\* service Echo of api/v1.proto both got the file name echo.go.
C3_Witness ==
    /\ Len(resp.File) >= 2
    /\ ps[1].ProtoName = sFooProto
    /\ ps[2].ProtoName = sApiProto
    /\ ps[1].ServiceDescriptorProto.Name = <<(<<"E","c","h","o">>)>>
    /\ ps[2].ServiceDescriptorProto.Name = <<(<<"E","c","h","o">>)>>
    /\ resp.File[1].Name = <<"e","c","h","o",".","g","o">>
    /\ resp.File[2].Name = <<"e","c","h","o",".","g","o">>

\* The first n files of the response are the files of the first n
\* services of ps, each made of a result format.Source can return without
\* error for the rendered service.
AllFormat(n) ==
    /\ n <= Len(ps)
    /\ Len(resp.File) >= n
    /\ \A m \in 1..n :
          /\ ~tmplExecute(ps[m]).err
          /\ \E f \in formatSource(tmplExecute(ps[m]).out) :
                /\ ~f.err
                /\ resp.File[m] = GeneratedFile(ps[m], f.out)

\* C4: the pipeline is all-or-nothing. A failure to read or decode the
\* request, or to render or format any one service, ends the process in
\* the failure state at that service, with nothing written to the output;
\* bytes are written only after every service of the request was rendered
\* and formatted, none passed over.
C4_AllOrNothing ==
    /\ (\E n \in 1..Len(logged) :
           logged[n] \in {"unable to read stdin",
                          "unable to marshal stdin as protobuf",
                          "unable to execute template",
                          "unable to go-fmt output",
                          "unable to marshal response to protobuf"})
         => (pc = "exit1" /\ stdout = <<>> /\ Len(logged) = 1)
    /\ FmtFailed =>
         /\ idx \in 1..Len(ps)
         /\ \E f \in formatSource(tmplExecute(ps[idx]).out) : f.err
         /\ Len(resp.File) = idx - 1
         /\ AllFormat(idx - 1)
    /\ stdout # <<>> =>
         /\ pc \in {"exit0", "exit1"}
         /\ ps = parseRequest(req)
         /\ TotalServices(req) = Len(ps)
         /\ Len(resp.File) = Len(ps)
         /\ AllFormat(Len(ps))
    /\ pc \in {"decodeRequest", "parseRequest", "generateResponse", "encodeResponse"}
         => stdout = <<>>

\* C4 witness: the third service of a request failed to format after two
\* services were rendered and appended; the process failed and wrote
\* nothing.
C4_Witness ==
    /\ pc = "exit1"
    /\ FmtFailed
    /\ idx = 3
    /\ ParseStatus(tmplExecute(ps[3]).out) = "fails"
    /\ Len(resp.File) = 2
    /\ stdout = <<>>

\* ---- helpers of the claims about the running stubs
Calls(name) == {n \in DOMAIN stream : stream[n].call = name}
Failed(n) == stream[n].err \notin {NilErr, EOF}
IsZeroOutput(n) == stream[n].arg.zero /\ stream[n].arg.type = stub.output
Returned(e) == ret = <<[err |-> e]>>

\* The state part of C6: only sends of zero-valued outputs, never more than
\* ten; a failed send is the last call and its error is what the stub
\* returned; the stub returns nil only after ten successful sends.
C6_ServerSafe ==
    stub.body = "ServerStreaming" =>
        /\ Calls("Recv") = {} /\ Calls("SendAndClose") = {}
        /\ \A n \in DOMAIN stream : stream[n].call = "Send" /\ IsZeroOutput(n)
        /\ Len(stream) <= 10
        /\ \A n \in DOMAIN stream :
              Failed(n) => n = Len(stream) /\ Returned(stream[n].err)
        /\ (ret # <<>> =>
              \/ (Len(stream) >= 1 /\ Failed(Len(stream)))
              \/ (Len(stream) = 10 /\ Returned(NilErr)
                  /\ \A n \in DOMAIN stream : stream[n].err = NilErr))
        /\ (ret = <<>> => \A n \in DOMAIN stream : stream[n].err = NilErr)

\* C6: the server-streaming stub sends zero-valued outputs one after
\* another and terminates whatever the sends return: after ten successful
\* sends with no error, or with the error of the first failed send, right
\* after it and with no further send; it never receives.
C6_ServerStreamingTerminates ==
    /\ []C6_ServerSafe
    /\ ((stub.body = "ServerStreaming") ~> (ret # <<>>))

\* C6 witness: the seventh send failed after six successful ones and the
\* stub returned its error.
C6_Witness ==
    /\ stub.body = "ServerStreaming"
    /\ Len(stream) = 7
    /\ \A n \in 1..6 : stream[n].err = NilErr
    /\ Failed(7)
    /\ Returned(stream[7].err)

\* C6 witness of the other outcome: ten successful sends, nil returned.
C6_WitnessAllSent ==
    /\ stub.body = "ServerStreaming"
    /\ Len(stream) = 10
    /\ Returned(NilErr)

\* C7: the client-streaming stub makes no send while it receives values;
\* on the first end-of-input it makes exactly one SendAndClose of a
\* zero-valued output and returns that call's result; on the first receive
\* error it returns that error without sending or closing; it sends at most
\* once and never receives after end-of-input or an error.
C7_ClientStreaming ==
    stub.body = "ClientStreaming" =>
        /\ Calls("Send") = {}
        /\ Cardinality(Calls("SendAndClose")) <= 1
        /\ \A n \in Calls("SendAndClose") :
              /\ n = Len(stream)
              /\ n > 1
              /\ stream[n - 1].call = "Recv" /\ stream[n - 1].err = EOF
              /\ IsZeroOutput(n)
              /\ Returned(stream[n].err)
        /\ \A n \in Calls("Recv") :
              /\ (stream[n].err = EOF =>
                    \/ (n = Len(stream) /\ ret = <<>>)
                    \/ (n = Len(stream) - 1 /\ Len(stream) \in Calls("SendAndClose")))
              /\ (Failed(n) =>
                    /\ n = Len(stream)
                    /\ Returned(stream[n].err)
                    /\ Calls("SendAndClose") = {})
              /\ (stream[n].err = NilErr =>
                    \A m \in 1..n : stream[m].call = "Recv" /\ stream[m].err = NilErr)
        /\ (ret # <<>> =>
              /\ Len(stream) >= 1
              /\ (Len(stream) \in Calls("SendAndClose") \/ Failed(Len(stream))))

\* C7 witness: two values, then end-of-input, then a SendAndClose that
\* failed, whose error the stub returned.
C7_Witness ==
    /\ stub.body = "ClientStreaming"
    /\ Len(stream) = 4
    /\ stream[1].err = NilErr /\ stream[2].err = NilErr
    /\ stream[3].err = EOF
    /\ stream[4].call = "SendAndClose"
    /\ Failed(4)
    /\ Returned(stream[4].err)

\* C8: the bidi-streaming stub alternates receive and send, one send of a
\* zero-valued output right after each received value, so that the sends
\* never outnumber the values received and fall behind by at most one; on
\* end-of-input it returns nil with as many sends as values; on the first
\* receive or send error it returns that error; in both cases no call
\* follows.
C8_BidiStreaming ==
    stub.body = "BidiStreaming" =>
        /\ Calls("SendAndClose") = {}
        /\ \A n \in DOMAIN stream :
              /\ (n % 2 = 1 => stream[n].call = "Recv")
              /\ (n % 2 = 0 =>
                    /\ stream[n].call = "Send"
                    /\ IsZeroOutput(n)
                    /\ stream[n - 1].err = NilErr)
              /\ (stream[n].err = EOF =>
                    /\ n = Len(stream)
                    /\ Returned(NilErr)
                    /\ Cardinality(Calls("Send")) = Cardinality(Received))
              /\ (Failed(n) => n = Len(stream) /\ Returned(stream[n].err))
        /\ Cardinality(Calls("Send")) <= Cardinality(Received)
        /\ Cardinality(Received) <= Cardinality(Calls("Send")) + 1
        /\ (ret # <<>> =>
              /\ Len(stream) >= 1
              /\ stream[Len(stream)].err # NilErr)
        /\ (ret = <<>> => \A n \in DOMAIN stream : stream[n].err = NilErr)

\* C8 witness: two values were received and answered, then end-of-input
\* came and the stub returned nil after two sends.
C8_Witness ==
    /\ stub.body = "BidiStreaming"
    /\ Len(stream) = 5
    /\ stream[5].err = EOF
    /\ Cardinality(Calls("Send")) = 2
    /\ Returned(NilErr)

\* ---- type-name normalization
\* C10 as stated: normalizing a type name twice gives what normalizing it
\* once gives, for every string.
C10_IdempotentOnAll ==
    Len(tn) = 3 => tn[3] = tn[2]

\* C10 amended: normalization is idempotent on every type name that does
\* not begin with more than one separator (the empty name and names without
\* a leading separator included).
C10_IdempotentOnSingleDot ==
    (Len(tn) = 3 /\ ~(Len(tn[1]) >= 2 /\ tn[1][1] = "." /\ tn[1][2] = "."))
        => tn[3] = tn[2]

\* C10 witness: ".a.B" was normalized twice; both results are "a.B".
C10_Witness ==
    /\ Len(tn) = 3
    /\ tn[1] = <<".", "a", ".", "B">>
    /\ tn[2] = <<"a", ".", "B">>
    /\ tn[3] = tn[2]

====
